---- MODULE Spec2Model ----
(***************************************************************************)
(* project-zipper: the .gitignore matcher (GitignoreParser, a wrapper of   *)
(* the `ignore` package), the directory walker (FileScanner) and the       *)
(* archiving pipeline (ProjectZipper.createZip, cli.ts).                   *)
(*                                                                         *)
(* Paths, rule lines and option strings are strings; a character is a      *)
(* string of length one.                                                   *)
(***************************************************************************)
EXTENDS Integers, Sequences, FiniteSets, TLC

(***************************************************************************)
(* Bounds of the model.                                                    *)
(***************************************************************************)
\* longest .gitignore, in lines
MaxRules == 2
\* how many scanned files another process deletes or replaces while
\* createZip runs
MaxChanges == 1

(***************************************************************************)
(* Strings.                                                                *)
(***************************************************************************)
Char(s, i) == SubSeq(s, i, i)

From(s, i) == SubSeq(s, i, Len(s))

StartsWith(s, p) == Len(p) <= Len(s) /\ SubSeq(s, 1, Len(p)) = p

EndsWithSlash(s) == Len(s) > 0 /\ Char(s, Len(s)) = "/"

StripSlash(s) == IF EndsWithSlash(s) THEN SubSeq(s, 1, Len(s) - 1) ELSE s

\* the positions at which a path segment of s starts
SegStarts(s) == {i \in 1..Len(s) : i = 1 \/ Char(s, i - 1) = "/"}

\* the segment of s that starts at position i
SegAt(s, i) ==
  LET stop == {j \in i..Len(s) : Char(s, j) = "/"}
      last == IF stop = {} THEN Len(s)
              ELSE (CHOOSE j \in stop : \A k \in stop : j <= k) - 1
  IN  SubSeq(s, i, last)

\* the positions of the separators of s
Slashes(s) == {i \in 1..Len(s) : Char(s, i) = "/"}

MaxOf(S) == CHOOSE m \in S : \A k \in S : k <= m

(***************************************************************************)
(* path.join and path.relative, for the paths the walker builds: dir is    *)
(* absolute and has no trailing separator, item is one name.               *)
(***************************************************************************)
join(dir, item) == dir \o "/" \o item

\* mutant: the path relative to the directory being listed, not to the root
relativeToParent(from, to) == From(to, MaxOf(Slashes(to)) + 1)

relative(from, to) ==
  IF to = from THEN ""
  ELSE IF StartsWith(to, from \o "/") THEN From(to, Len(from) + 2)
  ELSE "../" \o to

(***************************************************************************)
(* The `ignore` package behind GitignoreParser, for the dialect the rule   *)
(* lines below use: literal characters, "*", "?", a leading "!", a leading,*)
(* middle or trailing "/", "#" comments and blank lines.  Not modelled:    *)
(* "**", "[...]", backslash escapes, trailing spaces, letter case.         *)
(***************************************************************************)

\* content.split(/\r?\n/g): the lines of the rule file
RECURSIVE SplitLines(_)
SplitLines(content) ==
  LET nl == {i \in 1..Len(content) : Char(content, i) = "\n"}
  IN  IF nl = {} THEN <<content>>
      ELSE LET i == CHOOSE j \in nl : \A k \in nl : j <= k
           IN  <<SubSeq(content, 1, i - 1)>> \o SplitLines(From(content, i + 1))

\* checkPattern: a blank line and a comment are no rule
checkPattern(line) == line # "" /\ ~StartsWith(line, "#")

\* createRule: a leading "!" negates and is stripped
createRule(line) ==
  IF StartsWith(line, "!")
    THEN [negative |-> TRUE, pattern |-> Tail(line)]
    ELSE [negative |-> FALSE, pattern |-> line]

\* ig.add(content): the rules in file order
RECURSIVE RulesOf(_)
RulesOf(lines) ==
  IF lines = <<>> THEN <<>>
  ELSE (IF checkPattern(Head(lines)) THEN <<createRule(Head(lines))>> ELSE <<>>)
       \o RulesOf(Tail(lines))

add(content) == RulesOf(SplitLines(content))

\* The glob of a pattern against a whole string: "*" is [^/]* (one or more
\* characters when it ends the pattern right after "/" or the anchor), "?"
\* is [^/].  prev is the pattern character before pat, "^" at an anchored
\* start, "" at an unanchored one.
RECURSIVE GlobMatch(_, _, _)
GlobMatch(pat, s, prev) ==
  IF pat = "" THEN s = ""
  ELSE LET c == Head(pat)
           rest == Tail(pat)
       IN  CASE c = "*" ->
                  LET least == IF rest = "" /\ prev \in {"^", "/"} THEN 1 ELSE 0
                  IN  \E k \in least..Len(s) :
                        /\ \A i \in 1..k : Char(s, i) # "/"
                        /\ GlobMatch(rest, From(s, k + 1), c)
             [] c = "?" ->
                  s # "" /\ Head(s) # "/" /\ GlobMatch(rest, Tail(s), c)
             [] OTHER ->
                  s # "" /\ Head(s) = c /\ GlobMatch(rest, Tail(s), c)

\* rule.regex.test(path).  A pattern with a separator at its beginning or
\* middle is anchored to the root, any other matches at every depth; a
\* pattern ending in "/" matches only a path that ends in "/"; any other
\* pattern matches up to the end of the path or up to its trailing "/".
RegexTest(pattern, path) ==
  LET dirOnly == EndsWithSlash(pattern)
      body == StripSlash(pattern)
      lead == StartsWith(body, "/")
      core == IF lead THEN Tail(body) ELSE body
      anchored == lead \/ Slashes(core) # {}
      p == StripSlash(path)
  IN  /\ dirOnly => EndsWithSlash(path)
      /\ IF anchored THEN GlobMatch(core, p, "^")
         ELSE \E i \in SegStarts(p) : GlobMatch(core, From(p, i), "")

\* _testOne: the rules folded in file order over one path; the first
\* conjunct of skip is the package's shortcut for a rule that cannot change
\* the verdict
RECURSIVE TestFrom(_, _, _, _)
TestFrom(rs, path, i, acc) ==
  IF i > Len(rs) THEN acc
  ELSE LET rule == rs[i]
           skip == \/ acc.unignored = rule.negative /\ acc.ignored # acc.unignored
                   \/ rule.negative /\ ~acc.ignored /\ ~acc.unignored
           hit == ~skip /\ RegexTest(rule.pattern, path)
       IN  TestFrom(rs, path, i + 1,
                    IF hit THEN [ignored |-> ~rule.negative, unignored |-> rule.negative]
                    ELSE acc)

TestOne(rs, path) == TestFrom(rs, path, 1, [ignored |-> FALSE, unignored |-> FALSE])

\* the parent directory of a path, with its trailing "/"; "" at top level
ParentOf(path) ==
  LET sl == Slashes(StripSlash(path))
  IN  IF sl = {} THEN "" ELSE SubSeq(path, 1, MaxOf(sl))

\* _t: a path below an ignored directory is ignored, whatever rule matches it
RECURSIVE TestPath(_, _)
TestPath(rs, path) ==
  IF ParentOf(path) = "" THEN TestOne(rs, path)
  ELSE LET parent == TestPath(rs, ParentOf(path))
       IN  IF parent.ignored THEN parent ELSE TestOne(rs, path)

\* checkPath: ignores() throws on a path that is empty, absolute or leaves
\* the root
isPathValid(path) ==
  /\ path # ""
  /\ ~StartsWith(path, "/")
  /\ ~StartsWith(path, "./")
  /\ ~StartsWith(path, "../")
  /\ path \notin {".", ".."}

ignores(rs, path) == TestPath(rs, path).ignored

(***************************************************************************)
(* The state.                                                              *)
(***************************************************************************)
VARIABLES
  projectRoot,  \* ProjectZipper.projectRoot, an absolute path
  rootKind,     \* what projectRoot is on disk: "dir", "file" or "missing"
  gitignore,    \* <projectRoot>/.gitignore: whether it exists, and its text
  rules,        \* GitignoreParser.ig: the rules loaded by the constructor
  given,        \* the ZipOptions handed to the constructor
  options,      \* ProjectZipper.options
  scanState,    \* scanFiles: "idle", "readdir", "loop", "done", "failed"
  pendingDir,   \* the directory scanDirectory was just called with
  stack,        \* the scanDirectory calls in progress: [dir, items left]
  files,        \* the list scanFiles builds
  listed,       \* history: the directories readdir listed
  queried,      \* history: the paths handed to shouldIgnore
  statted,      \* history: the paths handed to fs.promises.stat
  fault,        \* history: the path whose readdir or stat threw
  zipState,     \* createZip: "idle", "scanning", "createArchive", "adding",
                \* "archiving", "resolved", "rejected"
  outDirExists, \* whether the output directory exists
  outputFile,   \* the archive file created, "" while there is none
  archiveLevel, \* <<level>> of the archiver created, <<>> while there is none
  addIdx,       \* addFilesToArchive: index of the file being processed
  addPc,        \* addFilesToArchive: "exists" or "stat", the next call on the file
  statQueue,    \* archiver: files queued by archive.file(), not yet stat'ed
  readQueue,    \* archiver: files stat'ed, not yet read into the archive
  entries,      \* the entry names written to the archive, in order
  warned,       \* the paths a warning was logged for
  rejectedBy,   \* the path whose processing rejected createZip, "" if none
  gone,         \* environment: scanned files deleted since the scan
  nowDir        \* environment: scanned files replaced by a directory

scanVars == <<scanState, pendingDir, stack, files, listed, queried, statted, fault>>

zipVars == <<zipState, outDirExists, outputFile, archiveLevel, addIdx, addPc,
             statQueue, readQueue, entries, warned, rejectedBy, gone, nowDir>>

setupVars == <<projectRoot, rootKind, gitignore, rules, given, options>>

vars == <<setupVars, scanVars, zipVars>>

(***************************************************************************)
(* The project tree on disk, by root-relative path: each directory with    *)
(* its listing, in the order readdir returns it.                           *)
(***************************************************************************)
Listing ==
  "" :> <<".env", ".git", "build", "debug.log", "important.log", "node_modules", "src">>
  @@ ".git" :> <<"HEAD">>
  @@ "build" :> <<"keep.txt", "out">>
  @@ "build/out" :> <<"a.o">>
  @@ "node_modules" :> <<"m.js">>
  @@ "src" :> <<"main.ts", "node_modules">>
  @@ "src/node_modules" :> <<"m.js">>

RelJoin(d, name) == IF d = "" THEN name ELSE d \o "/" \o name

TreePaths ==
  UNION {{RelJoin(d, Listing[d][i]) : i \in 1..Len(Listing[d])} : d \in DOMAIN Listing}

TreeDirs == DOMAIN Listing \ {""}

TreeFiles == TreePaths \ TreeDirs

Abs(rel) == IF rel = "" THEN projectRoot ELSE projectRoot \o "/" \o rel

\* stats.isDirectory() of an absolute path
IsDirectory(abs) == rootKind = "dir" /\ \E d \in DOMAIN Listing : Abs(d) = abs

\* fs.promises.readdir of a directory
readdir(abs) == Listing[CHOOSE d \in DOMAIN Listing : Abs(d) = abs]

(***************************************************************************)
(* Option values: JavaScript values, tagged by type.                       *)
(***************************************************************************)
Undefined == [t |-> "undefined"]

NaN == [t |-> "nan"]

Str(s) == [t |-> "str", s |-> s]

Num(n) == [t |-> "num", n |-> n]

Bool(b) == [t |-> "bool", b |-> b]

\* the values JavaScript's || passes over
Falsy(v) ==
  \/ v.t \in {"undefined", "nan"}
  \/ v.t = "str" /\ v.s = ""
  \/ v.t = "num" /\ v.n = 0
  \/ v.t = "bool" /\ ~v.b

Or(v, default) == IF Falsy(v) THEN default ELSE v

Digits == "0123456789"

IsDigit(c) == \E i \in 1..Len(Digits) : Char(Digits, i) = c

DigitVal(c) == (CHOOSE i \in 1..Len(Digits) : Char(Digits, i) = c) - 1

RECURSIVE ParseDigits(_, _)
ParseDigits(s, acc) ==
  IF s = "" \/ ~IsDigit(Head(s)) THEN acc
  ELSE ParseDigits(Tail(s), acc * 10 + DigitVal(Head(s)))

\* parseInt of an unsigned decimal string: the leading digits, NaN if none
parseInt(s) ==
  IF s = "" \/ ~IsDigit(Head(s)) THEN NaN ELSE Num(ParseDigits(s, 0))

\* cli.ts: the ZipOptions built from the parsed command line
cliOptions(output, name, includeHidden, compression) ==
  [outputPath |-> Str(output),
   outputName |-> Str(name),
   includeHidden |-> Bool(includeHidden),
   compressionLevel |-> parseInt(compression)]

mergeDefaultOptions(o) ==
  [outputPath |-> Or(o.outputPath, Str("./dist")),
   outputName |-> Or(o.outputName, Str("project.zip")),
   includeHidden |-> Or(o.includeHidden, Bool(FALSE)),
   compressionLevel |-> Or(o.compressionLevel, Num(6))]

\* new ProjectZipper(root) without options
NoOptions ==
  [outputPath |-> Undefined, outputName |-> Undefined,
   includeHidden |-> Undefined, compressionLevel |-> Undefined]

(***************************************************************************)
(* Construction.                                                           *)
(***************************************************************************)
Roots == {"/p", "/w/p"}

NoFile == [present |-> FALSE, content |-> ""]

RuleLines ==
  {"*.log", "!important.log", "build/", "!build/keep.txt",
   "/node_modules", "node_modules", "build", "!build/", ".*", "# build", ""}

RECURSIVE JoinLines(_)
JoinLines(ls) ==
  IF Len(ls) = 1 THEN ls[1] ELSE ls[1] \o "\n" \o JoinLines(Tail(ls))

\* the rule files of at most MaxRules lines
RuleFiles ==
  {[present |-> TRUE, content |-> ""]}
  \cup {[present |-> TRUE, content |-> JoinLines(ls)] :
          ls \in UNION {[1..n -> RuleLines] : n \in 1..MaxRules}}

\* mutant: built-in default rules when there is no rule file
loadGitignoreDefaults(kind, file) ==
  IF kind = "dir" /\ file.present THEN add(file.content) ELSE add("node_modules")

\* GitignoreParser.loadGitignore
loadGitignore(kind, file) ==
  IF kind = "dir" /\ file.present THEN add(file.content) ELSE <<>>

ScanIdle ==
  /\ scanState = "idle"
  /\ pendingDir = ""
  /\ stack = <<>>
  /\ files = <<>>
  /\ listed = {}
  /\ queried = {}
  /\ statted = {}
  /\ fault = ""

ZipIdle ==
  /\ zipState = "idle"
  /\ outDirExists = FALSE
  /\ outputFile = ""
  /\ archiveLevel = <<>>
  /\ addIdx = 1
  /\ addPc = "exists"
  /\ statQueue = <<>>
  /\ readQueue = <<>>
  /\ entries = <<>>
  /\ warned = {}
  /\ rejectedBy = ""
  /\ gone = {}
  /\ nowDir = {}

\* the state after new ProjectZipper(projectRoot, given)
Constructed(root, kind, file, o) ==
  /\ projectRoot = root
  /\ rootKind = kind
  /\ gitignore = file
  /\ rules = loadGitignore(kind, file)
  /\ given = o
  /\ options = mergeDefaultOptions(o)
  /\ ScanIdle
  /\ ZipIdle

Init ==
  \E root \in Roots, kind \in {"dir", "file", "missing"},
     file \in {NoFile} \cup RuleFiles :
    /\ kind # "dir" => file = NoFile
    /\ Constructed(root, kind, file, NoOptions)

(***************************************************************************)
(* FileScanner.                                                            *)
(***************************************************************************)
RECURSIVE Reverse(_)
Reverse(q) == IF q = <<>> THEN <<>> ELSE Reverse(Tail(q)) \o <<Head(q)>>

\* mutant: the first matching rule decides
shouldIgnoreFirstMatch(filePath) == ignores(Reverse(rules), filePath)

\* mutant: each path is tested alone, without its parent directories
shouldIgnoreNoParent(filePath) == TestOne(rules, filePath).ignored

\* GitignoreParser.shouldIgnore
shouldIgnore(filePath) == ignores(rules, filePath)

\* the start of scanFiles: scanDirectory(projectRoot, files)
ScanStart ==
  /\ scanState = "idle"
  /\ scanState' = "readdir"
  /\ pendingDir' = projectRoot
  /\ UNCHANGED <<stack, files, listed, queried, statted, fault>>

\* getFileList: a scan without an archive
GetFileList ==
  /\ zipState = "idle"
  /\ ScanStart
  /\ UNCHANGED <<setupVars, zipVars>>

\* scanDirectory, line 18: readdir lists the directory
ReaddirOk ==
  /\ scanState = "readdir"
  /\ IsDirectory(pendingDir)
  /\ stack' = Append(stack, [dir |-> pendingDir, items |-> readdir(pendingDir)])
  /\ listed' = listed \cup {pendingDir}
  /\ scanState' = "loop"
  /\ pendingDir' = ""
  /\ UNCHANGED <<files, queried, statted, fault>>
  /\ UNCHANGED <<setupVars, zipVars>>

\* mutant: a failing readdir counts as an empty directory
ReaddirFailEmpty ==
  /\ scanState = "readdir"
  /\ scanState' = IF stack = <<>> THEN "done" ELSE "loop"
  /\ pendingDir' = ""
  /\ UNCHANGED <<stack, files, listed, queried, statted, fault>>
  /\ UNCHANGED <<setupVars, zipVars>>

\* scanDirectory, line 18: readdir throws (ENOENT, ENOTDIR, EACCES); nothing
\* catches it, so scanFiles rejects
ReaddirFail ==
  /\ scanState = "readdir"
  /\ scanState' = "failed"
  /\ fault' = pendingDir
  /\ UNCHANGED <<pendingDir, stack, files, listed, queried, statted>>
  /\ UNCHANGED <<setupVars, zipVars>>

Top == stack[Len(stack)]

InLoop == scanState = "loop" /\ Top.items # <<>>

fullPath == join(Top.dir, Head(Top.items))

relativePath == relative(projectRoot, fullPath)

\* the loop moves on to the next item
Advance == [stack EXCEPT ![Len(stack)].items = Tail(@)]

\* lines 24-26: the matcher excludes the item
VisitIgnored ==
  /\ InLoop
  /\ isPathValid(relativePath)
  /\ shouldIgnore(relativePath)
  /\ queried' = queried \cup {relativePath}
  /\ stack' = Advance
  /\ UNCHANGED <<scanState, pendingDir, files, listed, statted, fault>>
  /\ UNCHANGED <<setupVars, zipVars>>

\* lines 24 and 28: shouldIgnore throws on a path that is not root-relative,
\* or stat throws (EACCES, or ENOENT for an entry deleted since the listing);
\* nothing catches either, so scanFiles rejects
VisitThrows ==
  /\ InLoop
  /\ isPathValid(relativePath) => ~shouldIgnore(relativePath)
  /\ queried' = queried \cup {relativePath}
  /\ statted' = IF isPathValid(relativePath) THEN statted \cup {fullPath} ELSE statted
  /\ fault' = IF isPathValid(relativePath) THEN fullPath ELSE fault
  /\ scanState' = "failed"
  /\ UNCHANGED <<pendingDir, stack, files, listed>>
  /\ UNCHANGED <<setupVars, zipVars>>

\* lines 29-30: the item is a directory: scanDirectory(fullPath, files)
VisitDirectory ==
  /\ InLoop
  /\ isPathValid(relativePath)
  /\ ~shouldIgnore(relativePath)
  /\ IsDirectory(fullPath)
  /\ queried' = queried \cup {relativePath}
  /\ statted' = statted \cup {fullPath}
  /\ pendingDir' = fullPath
  /\ scanState' = "readdir"
  /\ stack' = Advance
  /\ UNCHANGED <<files, listed, fault>>
  /\ UNCHANGED <<setupVars, zipVars>>

\* mutant: the walker drops dotfiles itself
VisitFileNoHidden ==
  /\ InLoop
  /\ isPathValid(relativePath)
  /\ ~shouldIgnore(relativePath)
  /\ ~IsDirectory(fullPath)
  /\ queried' = queried \cup {relativePath}
  /\ statted' = statted \cup {fullPath}
  /\ files' = IF StartsWith(Head(Top.items), ".") THEN files ELSE Append(files, fullPath)
  /\ stack' = Advance
  /\ UNCHANGED <<scanState, pendingDir, listed, fault>>
  /\ UNCHANGED <<setupVars, zipVars>>

\* lines 31-32: anything else is pushed
VisitFile ==
  /\ InLoop
  /\ isPathValid(relativePath)
  /\ ~shouldIgnore(relativePath)
  /\ ~IsDirectory(fullPath)
  /\ queried' = queried \cup {relativePath}
  /\ statted' = statted \cup {fullPath}
  /\ files' = Append(files, fullPath)
  /\ stack' = Advance
  /\ UNCHANGED <<scanState, pendingDir, listed, fault>>
  /\ UNCHANGED <<setupVars, zipVars>>

\* the loop of a scanDirectory call ends: the call returns, and scanFiles
\* returns files when it was the outermost
ScanReturn ==
  /\ scanState = "loop"
  /\ Top.items = <<>>
  /\ stack' = SubSeq(stack, 1, Len(stack) - 1)
  /\ scanState' = IF Len(stack) = 1 THEN "done" ELSE "loop"
  /\ UNCHANGED <<pendingDir, files, listed, queried, statted, fault>>
  /\ UNCHANGED <<setupVars, zipVars>>

Next ==
  \/ GetFileList
  \/ ReaddirOk
  \/ ReaddirFail
  \/ VisitIgnored
  \/ VisitThrows
  \/ VisitDirectory
  \/ VisitFile
  \/ ScanReturn

Spec == Init /\ [][Next]_vars

(***************************************************************************)
(* ProjectZipper.createZip.                                                *)
(***************************************************************************)
CliCompression == {"0", "1", "2", "3", "4", "5", "6", "7", "8", "9", "x"}

\* the options of the runs: none, and the command lines
ZipGiven ==
  {NoOptions, cliOptions("out", "a.zip", FALSE, "6")}
  \cup {cliOptions("./dist", "project.zip", h, c) : h \in BOOLEAN, c \in CliCompression}

ZipRuleFiles == {NoFile, [present |-> TRUE, content |-> "node_modules\nbuild/\n*.log"]}

ZipInit ==
  \E root \in Roots, kind \in {"dir", "file", "missing"},
     file \in ZipRuleFiles, o \in ZipGiven :
    /\ kind # "dir" => file = NoFile
    /\ Constructed(root, kind, file, o)

\* path.join of the output directory and name: a leading "./" is dropped
joinOutput(dir, name) ==
  IF StartsWith(dir, "./") THEN From(dir, 3) \o "/" \o name ELSE dir \o "/" \o name

\* isHiddenFile: some segment starts with a dot and is neither "." nor ".."
isHiddenFile(filePath) ==
  \E i \in SegStarts(filePath) :
    /\ Char(filePath, i) = "."
    /\ SegAt(filePath, i) \notin {".", ".."}

\* createZip, line 33: the scan starts
CreateZip ==
  /\ zipState = "idle"
  /\ ScanStart
  /\ zipState' = "scanning"
  /\ UNCHANGED <<outDirExists, outputFile, archiveLevel, addIdx, addPc, statQueue,
                 readQueue, entries, warned, rejectedBy, gone, nowDir>>
  /\ UNCHANGED setupVars

\* mutant: a failed scan is swallowed and createZip resolves
CreateZipSwallows ==
  /\ zipState = "scanning"
  /\ scanState = "failed"
  /\ zipState' = "resolved"
  /\ UNCHANGED <<outDirExists, outputFile, archiveLevel, addIdx, addPc, statQueue,
                 readQueue, entries, warned, rejectedBy, gone, nowDir>>
  /\ UNCHANGED <<setupVars, scanVars>>

\* createZip, lines 48-51: the scan rejected; the error is logged and rethrown
CreateZipCatch ==
  /\ zipState = "scanning"
  /\ scanState = "failed"
  /\ zipState' = "rejected"
  /\ rejectedBy' = fault
  /\ UNCHANGED <<outDirExists, outputFile, archiveLevel, addIdx, addPc, statQueue,
                 readQueue, entries, warned, gone, nowDir>>
  /\ UNCHANGED <<setupVars, scanVars>>

\* createZip, line 38: ensureOutputDirectory
EnsureOutputDirectory ==
  /\ zipState = "scanning"
  /\ scanState = "done"
  /\ outDirExists' = TRUE
  /\ zipState' = "createArchive"
  /\ UNCHANGED <<outputFile, archiveLevel, addIdx, addPc, statQueue, readQueue,
                 entries, warned, rejectedBy, gone, nowDir>>
  /\ UNCHANGED <<setupVars, scanVars>>

\* createArchive, lines 68-73: the output stream and the archiver are created
CreateArchive ==
  /\ zipState = "createArchive"
  /\ outputFile' = joinOutput(options.outputPath.s, options.outputName.s)
  /\ archiveLevel' = <<options.compressionLevel.n>>
  /\ zipState' = "adding"
  /\ UNCHANGED <<outDirExists, addIdx, addPc, statQueue, readQueue, entries,
                 warned, rejectedBy, gone, nowDir>>
  /\ UNCHANGED <<setupVars, scanVars>>

Adding == zipState = "adding" /\ addIdx <= Len(files)

filePath == files[addIdx]

\* addFilesToArchive, lines 124-135: a hidden file is skipped unless hidden
\* files are included; a file that no longer exists is skipped with a warning
AddExists ==
  /\ Adding
  /\ addPc = "exists"
  /\ LET hidden == ~options.includeHidden.b
                   /\ isHiddenFile(relative(projectRoot, filePath))
     IN  /\ addIdx' = IF hidden \/ filePath \in gone THEN addIdx + 1 ELSE addIdx
         /\ addPc' = IF hidden \/ filePath \in gone THEN "exists" ELSE "stat"
         /\ warned' = IF ~hidden /\ filePath \in gone THEN warned \cup {filePath}
                      ELSE warned
  /\ UNCHANGED <<zipState, outDirExists, outputFile, archiveLevel, statQueue,
                 readQueue, entries, rejectedBy, gone, nowDir>>
  /\ UNCHANGED <<setupVars, scanVars>>

\* addFilesToArchive, lines 137-153: statSync throws on a file deleted since
\* existsSync, and the catch warns; a directory is skipped silently; any
\* other file is queued with archive.file
AddStat ==
  /\ Adding
  /\ addPc = "stat"
  /\ warned' = IF filePath \in gone THEN warned \cup {filePath} ELSE warned
  /\ statQueue' = IF filePath \in gone \cup nowDir THEN statQueue
                  ELSE Append(statQueue, filePath)
  /\ addIdx' = addIdx + 1
  /\ addPc' = "exists"
  /\ UNCHANGED <<zipState, outDirExists, outputFile, archiveLevel, readQueue,
                 entries, rejectedBy, gone, nowDir>>
  /\ UNCHANGED <<setupVars, scanVars>>

\* createArchive, line 117: archive.finalize()
Finalize ==
  /\ zipState = "adding"
  /\ addIdx > Len(files)
  /\ zipState' = "archiving"
  /\ UNCHANGED <<outDirExists, outputFile, archiveLevel, addIdx, addPc, statQueue,
                 readQueue, entries, warned, rejectedBy, gone, nowDir>>
  /\ UNCHANGED <<setupVars, scanVars>>

\* the archiver stats a queued file: a missing file raises the ENOENT warning
\* that lines 86-92 log; a directory becomes a directory entry; a file is
\* queued for reading
ArchiverStat ==
  /\ zipState = "archiving"
  /\ statQueue # <<>>
  /\ LET f == Head(statQueue)
     IN  /\ statQueue' = Tail(statQueue)
         /\ warned' = IF f \in gone THEN warned \cup {f} ELSE warned
         /\ entries' = IF f \in nowDir
                         THEN Append(entries, relative(projectRoot, f))
                         ELSE entries
         /\ readQueue' = IF f \in gone \cup nowDir THEN readQueue
                         ELSE Append(readQueue, f)
  /\ UNCHANGED <<zipState, outDirExists, outputFile, archiveLevel, addIdx, addPc,
                 rejectedBy, gone, nowDir>>
  /\ UNCHANGED <<setupVars, scanVars>>

\* the archiver reads a stat'ed file into the archive; a file that cannot be
\* read any more raises the error event, and lines 94-96 reject
ArchiverRead ==
  /\ zipState = "archiving"
  /\ readQueue # <<>>
  /\ LET f == Head(readQueue)
     IN  /\ readQueue' = Tail(readQueue)
         /\ IF f \in gone \cup nowDir
              THEN /\ zipState' = "rejected"
                   /\ rejectedBy' = f
                   /\ UNCHANGED entries
              ELSE /\ entries' = Append(entries, relative(projectRoot, f))
                   /\ UNCHANGED <<zipState, rejectedBy>>
  /\ UNCHANGED <<outDirExists, outputFile, archiveLevel, addIdx, addPc, statQueue,
                 warned, gone, nowDir>>
  /\ UNCHANGED <<setupVars, scanVars>>

\* lines 76-80: the output closes once every queued file is written, and the
\* promise resolves
ArchiverClose ==
  /\ zipState = "archiving"
  /\ statQueue = <<>>
  /\ readQueue = <<>>
  /\ zipState' = "resolved"
  /\ UNCHANGED <<outDirExists, outputFile, archiveLevel, addIdx, addPc, statQueue,
                 readQueue, entries, warned, rejectedBy, gone, nowDir>>
  /\ UNCHANGED <<setupVars, scanVars>>

\* the scanned files another process may still change
Changeable ==
  IF /\ scanState = "done"
     /\ zipState \in {"scanning", "createArchive", "adding", "archiving"}
     /\ Cardinality(gone \cup nowDir) < MaxChanges
  THEN {files[i] : i \in 1..Len(files)} \ (gone \cup nowDir)
  ELSE {}

\* environment: a scanned file is deleted
DeleteFile ==
  \E f \in Changeable :
    /\ gone' = gone \cup {f}
    /\ UNCHANGED <<zipState, outDirExists, outputFile, archiveLevel, addIdx, addPc,
                   statQueue, readQueue, entries, warned, rejectedBy, nowDir>>
    /\ UNCHANGED <<setupVars, scanVars>>

\* environment: a scanned file is replaced by a directory of the same name
ReplaceByDirectory ==
  \E f \in Changeable :
    /\ nowDir' = nowDir \cup {f}
    /\ UNCHANGED <<zipState, outDirExists, outputFile, archiveLevel, addIdx, addPc,
                   statQueue, readQueue, entries, warned, rejectedBy, gone>>
    /\ UNCHANGED <<setupVars, scanVars>>

ZipNext ==
  \/ CreateZip
  \/ ReaddirOk
  \/ ReaddirFail
  \/ VisitIgnored
  \/ VisitThrows
  \/ VisitDirectory
  \/ VisitFile
  \/ ScanReturn
  \/ CreateZipCatch
  \/ EnsureOutputDirectory
  \/ CreateArchive
  \/ AddExists
  \/ AddStat
  \/ Finalize
  \/ ArchiverStat
  \/ ArchiverRead
  \/ ArchiverClose
  \/ DeleteFile
  \/ ReplaceByDirectory

ZipSpec == ZipInit /\ [][ZipNext]_vars

(***************************************************************************)
(* Properties.                                                             *)
(***************************************************************************)
Range(q) == {q[i] : i \in 1..Len(q)}

Below(dir, path) == StartsWith(path, dir \o "/")

\* the directories above a root-relative path
Ancestors(path) == {d \in TreeDirs : Below(d, path)}

\* the verdict of the latest rule, in file order, that matches the path
\* alone: excluded when it is not negated, included when it is negated or
\* when no rule matches
LastMatch(path) ==
  LET hits == {i \in 1..Len(rules) : RegexTest(rules[i].pattern, path)}
  IN  hits # {} /\ ~rules[MaxOf(hits)].negative

\* a directory above the path is excluded by the rules
AncestorExcluded(path) == \E d \in Ancestors(path) : LastMatch(d \o "/")

Scanned == scanState = "done"

\* C1: the walker never descends into an excluded directory: a directory the
\* rules exclude is never listed, and nothing below it is stat'ed or handed
\* to the matcher.
C1_NoDescentIntoExcluded ==
  \A d \in TreeDirs :
    shouldIgnore(d \o "/") =>
      /\ Abs(d) \notin listed
      /\ \A q \in queried : ~Below(d, q)
      /\ \A a \in statted : ~Below(Abs(d), a)

\* C2: a readdir or stat failure on one entry below the root is not fatal:
\* scanFiles does not fail because of it.
C2_EntryFailureNotFatal ==
  ~(scanState = "failed" /\ fault # "" /\ fault # projectRoot)

\* C4: a finished scan returns exactly the absolute paths of the files that
\* the matcher excludes neither themselves nor through a directory above
\* them; names starting with a dot get no special treatment.
C4_ScanResultExact ==
  Scanned =>
    Range(files) =
      {Abs(f) : f \in {g \in TreeFiles :
                         /\ ~shouldIgnore(g)
                         /\ \A d \in Ancestors(g) : ~shouldIgnore(d)}}

C4_Witness ==
  /\ Scanned
  /\ Abs(".env") \in Range(files)
  /\ Abs(".git/HEAD") \in Range(files)
  /\ Abs("debug.log") \notin Range(files)
  /\ Abs("node_modules/m.js") \notin Range(files)

NoRuleFile == rootKind = "dir" /\ ~gitignore.present

\* what is left of a scan: the paths not yet handed to the matcher, the
\* calls to return from and the listing about to be read
ScanMeasure ==
  CASE scanState = "idle" -> 3 * Cardinality(TreePaths) + 3
    [] scanState \in {"done", "failed"} -> 0
    [] OTHER -> 3 * Cardinality(TreePaths \ queried) + Len(stack)
                + (IF scanState = "readdir" THEN 2 ELSE 0)

\* C5: without a rule file the matcher excludes no path; the scan ends,
\* since each of its steps leaves less to do; and a finished scan returns
\* every file of the tree exactly once.
C5_NoRuleFileReturnsAll ==
  /\ [](NoRuleFile =>
         /\ \A p \in TreePaths : ~shouldIgnore(p)
         /\ Scanned =>
              /\ Range(files) = {Abs(f) : f \in TreeFiles}
              /\ Len(files) = Cardinality(TreeFiles))
  /\ [][NoRuleFile => ScanMeasure' < ScanMeasure]_vars

C5_Witness ==
  /\ ~gitignore.present
  /\ Scanned
  /\ Len(files) = Cardinality(TreeFiles)

\* C6: last match wins: below an excluded directory a path is excluded;
\* otherwise shouldIgnore is the verdict of the latest rule that matches the
\* path, and false when none does.  The rules never change after
\* construction, so the verdicts are compared for every matcher constructed.
C6_LastMatchWins ==
  scanState = "idle" =>
    /\ \A p \in TreePaths \cup {d \o "/" : d \in TreeDirs} :
         shouldIgnore(p) = (AncestorExcluded(p) \/ LastMatch(p))
    /\ rules = add("*.log\n!important.log") =>
         ~shouldIgnore("important.log") /\ shouldIgnore("debug.log")

C6_Witness ==
  /\ rules = add("*.log\n!important.log")
  /\ Scanned
  /\ Abs("important.log") \in Range(files)
  /\ Abs("debug.log") \notin Range(files)
  /\ {"important.log", "debug.log"} \subseteq queried

\* C7: a negated rule cannot re-include a file below an excluded directory:
\* no file below a directory that the rules exclude is ever in the scan
\* result, and ["build/", "!build/keep.txt"] excludes build/keep.txt.
C7_NoResurrection ==
  /\ \A a \in Range(files) :
       \A d \in TreeDirs : Below(Abs(d), a) => ~LastMatch(d \o "/")
  /\ rules = add("build/\n!build/keep.txt") => shouldIgnore("build/keep.txt")

C7_Witness ==
  /\ rules = add("build/\n!build/keep.txt")
  /\ Scanned
  /\ "build/keep.txt" \in queried
  /\ Abs("build/keep.txt") \notin Range(files)
  /\ Abs("important.log") \in Range(files)

\* C8: root anchoring: the matcher is only ever asked about root-relative
\* paths of the tree, wherever the root lives; "/node_modules" excludes
\* node_modules at the root only, "node_modules" excludes it at every depth.
C8_RootAnchoring ==
  /\ \A q \in queried : ~StartsWith(q, "/") /\ q \in TreePaths
  /\ rules = add("/node_modules") =>
       /\ shouldIgnore("node_modules")
       /\ ~shouldIgnore("src/node_modules")
       /\ Scanned =>
            /\ Abs("src/node_modules/m.js") \in Range(files)
            /\ Abs("node_modules/m.js") \notin Range(files)
  /\ rules = add("node_modules") =>
       /\ shouldIgnore("node_modules")
       /\ shouldIgnore("src/node_modules")
       /\ Scanned =>
            /\ Abs("src/node_modules/m.js") \notin Range(files)
            /\ Abs("node_modules/m.js") \notin Range(files)

C8_Witness ==
  /\ rules = add("/node_modules")
  /\ projectRoot = "/w/p"
  /\ Scanned
  /\ "src/node_modules" \in queried
  /\ Abs("src/node_modules/m.js") \in Range(files)
  /\ Abs("node_modules/m.js") \notin Range(files)

\* C3: a root that is missing or no directory makes the scan fail: scanFiles
\* never ends with a result for it, and createZip rejects without creating
\* the output directory, the archive file or the archiver.
C3_BadRootFails ==
  rootKind # "dir" =>
    /\ scanState \in {"idle", "readdir", "failed"}
    /\ scanState = "failed" => fault = projectRoot
    /\ files = <<>>
    /\ zipState \in {"idle", "scanning", "rejected"}
    /\ zipState = "rejected" => scanState = "failed"
    /\ ~outDirExists /\ outputFile = "" /\ archiveLevel = <<>>

C3_Witness ==
  /\ rootKind = "missing"
  /\ scanState = "failed"
  /\ zipState = "rejected"
  /\ outputFile = ""

HiddenSkipped(f) ==
  ~options.includeHidden.b /\ isHiddenFile(relative(projectRoot, f))

\* C9: a scanned file that is deleted or replaced by a directory before or
\* while it is added to the archive never makes createZip fail, and when
\* createZip resolves every deleted file was either archived before it went
\* or skipped with a warning.
C9_ChangedFileSkipped ==
  /\ ~(zipState = "rejected" /\ rejectedBy \in gone \cup nowDir)
  /\ zipState = "resolved" =>
       \A f \in gone :
         \/ relative(projectRoot, f) \in Range(entries)
         \/ HiddenSkipped(f)
         \/ f \in warned

Supplied(v) == v.t \notin {"undefined", "nan"}

\* C10: every supplied option is preserved by mergeDefaultOptions, and the
\* archiver is created with exactly the compression level 0..9 supplied.
C10_OptionsPreserved ==
  /\ Supplied(given.outputPath) => options.outputPath = given.outputPath
  /\ Supplied(given.outputName) => options.outputName = given.outputName
  /\ Supplied(given.includeHidden) => options.includeHidden = given.includeHidden
  /\ Supplied(given.compressionLevel) =>
       /\ options.compressionLevel = given.compressionLevel
       /\ archiveLevel # <<>> => archiveLevel = <<given.compressionLevel.n>>

====
